---- MODULE Spec2Model ----
(***************************************************************************)
(* thermo-guard: the control loop of main(), the alert poll and its        *)
(* reduction (MerakiClient), the fabric shutdown (shutdown_cluster over    *)
(* VCenterClient) and the out-of-band power-on (power_on_cluster over      *)
(* IloClient), as one state machine.                                       *)
(*                                                                         *)
(* Python values are written as strings: "None", "True", "False".          *)
(* A remote call whose failure the code has to handle (a property read of  *)
(* a pyVmomi object, a request, a task poll) is a nondeterministic choice  *)
(* between its normal outcomes and "raise".  Logging is not modelled.      *)
(* connect.Disconnect of pyVim logs out inside its own try/except and      *)
(* does not raise an Exception; only an interrupt can cut it short.        *)
(*                                                                         *)
(* The records kept about a VM, a host or an out-of-band host describe the *)
(* unit being handled and start afresh with the next unit.                 *)
(***************************************************************************)
EXTENDS Integers, Sequences, FiniteSets, TLC

\* ---------------------------------------------------------------- bounds
\* virtual machines the inventory can hold
NumVMs == 2
\* ESXi hosts the inventory can hold
NumHosts == 2
\* entries of config.ILO_HOSTS (validate_config refuses an empty list)
NumIlo == 3
\* largest alert count in a feed response
MaxCount == 2
\* consecutive failed procedures that are told apart
MaxFailedTicks == 2
\* entries ILO_HOSTS can have at start-up (at most NumIlo)
MaxEntries == 2

\* ------------------------------------------------------ program constants
max_retries == 3
retry_delay == 1
GracefulPolls == 30

VMs == 1..NumVMs
Hosts == 1..NumHosts
ILO_HOSTS == 1..NumIlo
Metrics == {"temperature", "humidity"}

VARIABLES
    pc,                 \* position of the single thread of control
    is_shutdown,        \* main(): the cluster state (FALSE = RUNNING)
    temperature_data,   \* main(): what get_temperature_alerts returned
    has_alarm,          \* main(): what check_temperature_alarm returned
    attempt,            \* get_temperature_alerts: loop index
    requestsMade,       \* get_temperature_alerts: requests.get calls made
    slept,              \* get_temperature_alerts: backoff delays slept, in order
    startShutdown,      \* is_shutdown when the tick began
    invoked,            \* procedures main() invoked in this tick, in order
    result,             \* value returned by the procedure of this tick
    running,            \* procedures called and not yet returned
    config,             \* the configuration module as loaded
    interruptedIn,      \* procedures a KeyboardInterrupt unwound
    failedTicks,        \* procedures that returned False since the last True
    lastSucceeded,      \* the procedure that last returned True to main()
    service_instance,   \* VCenterClient.service_instance
    opened,             \* this run of shutdown_cluster opened a session
    enumFailed,         \* get_all_vms or get_all_hosts raised in this run
    unitRaised,         \* a read outside a method's try raised in this run
    vmsAllOff,          \* every VM was powered off when enumerated
    hostsAllIn,         \* every host was in maintenance mode when enumerated
    vms, vmsListed, vmIdx,          \* shutdown_cluster: the VM loop
    vmPower,            \* remote: power state of each VM
    vmCalled,           \* VMs shutdown_vm was called on
    vmSeen,             \* shutdown_vm: powerState at its first read
    toolsObs,           \* shutdown_vm: toolsRunningStatus as read
    guestReq,           \* shutdown_vm: ShutdownGuest was called
    polls,              \* shutdown_vm: power-state polls after ShutdownGuest
    powerOffReq,        \* shutdown_vm: PowerOff was called
    vmRet,              \* shutdown_vm: the value returned
    task,               \* state of the asynchronous task being polled
    hosts, hostsListed, hostIdx,    \* shutdown_cluster: the host loop
    inMaintenanceMode,  \* remote: maintenance flag of each host
    hostCalled,         \* hosts enter_maintenance_mode was called on
    maintReq,           \* enter_maintenance_mode: EnterMaintenanceMode was called
    emmRet,             \* enter_maintenance_mode: the value returned
    hostShutReq,        \* shutdown_host: ShutdownHost_Task was called
    reqFlag,            \* shutdown_host: the flag read before that call
    hsRet,              \* shutdown_host: the value returned
    iloIdx,             \* power_on_cluster: loop index into ILO_HOSTS
    success,            \* power_on_cluster: the aggregate
    redfish_client,     \* IloClient.redfish_client of the host being handled
    iloConn,            \* value IloClient.connect returned for each host
    iloPow,             \* value IloClient.power_on returned for each host
    iloOrder,           \* hosts power_on_cluster attempted, in order
    powerStateObs,      \* IloClient.power_on: PowerState as read
    resetReq,           \* IloClient.power_on: reset actions posted
    resetStatus,        \* IloClient.power_on: how the post was answered
    logoutTried         \* IloClient.disconnect: logout was called

loopVars == <<is_shutdown, temperature_data, has_alarm, attempt, requestsMade,
             slept>>
tickVars == <<startShutdown, invoked, result, running, interruptedIn, config,
             failedTicks, lastSucceeded>>
foundVars == <<unitRaised, vmsAllOff, hostsAllIn>>
sessVars == <<service_instance, opened, enumFailed, foundVars>>
vmVars == <<vms, vmsListed, vmIdx, vmPower, vmCalled, vmSeen, toolsObs,
            guestReq, polls, powerOffReq, vmRet>>
hostVars == <<hosts, hostsListed, hostIdx, inMaintenanceMode, hostCalled,
              maintReq, emmRet, hostShutReq, reqFlag, hsRet>>
iloVars == <<iloIdx, success, redfish_client, iloConn, iloPow, iloOrder,
             powerStateObs, resetReq, resetStatus, logoutTried>>
vars == <<pc, loopVars, tickVars, sessVars, vmVars, hostVars, task, iloVars>>

\* ---------------------------------------------------------- configuration
\* config.py: an environment variable that is not set reads as "".  An entry
\* of ILO_HOSTS is the set of keys it has; a value of ILO_HOSTS that is not
\* valid JSON leaves the list empty (lines 22-28).
Fields == {"MERAKI_API_KEY", "MERAKI_NETWORK_ID", "VCENTER_HOST",
           "VCENTER_USER", "VCENTER_PASSWORD"}
EntryKeys == {"host", "username", "password"}

Configs ==
    [env : [Fields -> {"", "set"}],
     ILO_HOSTS : UNION {[1..n -> SUBSET EntryKeys] : n \in 0..MaxEntries}]

\* A variant that does not look into the entries of ILO_HOSTS.
validate_config_list_only(cfg) ==
    /\ \A f \in Fields : cfg.env[f] # ""
    /\ cfg.ILO_HOSTS # <<>>

\* config.validate_config.
validate_config(cfg) ==
    IF cfg.env["MERAKI_API_KEY"] = "" THEN FALSE
    ELSE IF cfg.env["MERAKI_NETWORK_ID"] = "" THEN FALSE
    ELSE IF cfg.env["VCENTER_HOST"] = "" THEN FALSE
    ELSE IF cfg.env["VCENTER_USER"] = "" THEN FALSE
    ELSE IF cfg.env["VCENTER_PASSWORD"] = "" THEN FALSE
    ELSE IF cfg.ILO_HOSTS = <<>> THEN FALSE
    ELSE \A i \in 1..Len(cfg.ILO_HOSTS) :
            \A key \in EntryKeys : key \in cfg.ILO_HOSTS[i]

\* The configuration the loop runs with: everything set, NumIlo entries.
ValidConfig ==
    [env |-> [f \in Fields |-> "set"],
     ILO_HOSTS |-> [i \in 1..NumIlo |-> EntryKeys]]

\* ------------------------------------------------------------ alert feed
\* A JSON count: a number, or null.
JsonCount == {[type |-> "number", n |-> k] : k \in 0..MaxCount}
             \cup {[type |-> "null", n |-> 0]}

NoCounts == [m \in {} |-> [type |-> "null", n |-> 0]]

\* The JSON objects a 200 response can carry: supportedMetrics and counts
\* are each present or absent.
Readings ==
    LET Counts == UNION {[D -> JsonCount] : D \in SUBSET Metrics}
    IN  {[kind |-> "dict", hasSupportedMetrics |-> TRUE,
          supportedMetrics |-> s, hasCounts |-> TRUE, counts |-> c]
            : s \in SUBSET Metrics, c \in Counts}
        \cup {[kind |-> "dict", hasSupportedMetrics |-> TRUE,
               supportedMetrics |-> s, hasCounts |-> FALSE, counts |-> NoCounts]
            : s \in SUBSET Metrics}
        \cup {[kind |-> "dict", hasSupportedMetrics |-> FALSE,
               supportedMetrics |-> {}, hasCounts |-> TRUE, counts |-> c]
            : c \in Counts}
        \cup {[kind |-> "dict", hasSupportedMetrics |-> FALSE,
               supportedMetrics |-> {}, hasCounts |-> FALSE, counts |-> NoCounts]}

Blank(k) == [kind |-> k, hasSupportedMetrics |-> FALSE, supportedMetrics |-> {},
             hasCounts |-> FALSE, counts |-> NoCounts]
\* not polled yet in this tick
Unset == Blank("unset")
\* Python None: every attempt failed
NoData == Blank("None")
\* a reading that has been reduced; main() does not read it again
Reduced == Blank("reduced")

\* A variant that does not look at supportedMetrics.
check_temperature_alarm_counts_only(data) ==
    IF data.hasCounts /\ "temperature" \in DOMAIN data.counts
    THEN LET temperature_count == data.counts["temperature"]
         IN  IF temperature_count.type # "number" THEN "TypeError"
             ELSE IF temperature_count.n > 0 THEN "True" ELSE "False"
    ELSE "None"

\* A variant that compares the count with >= 0.
check_temperature_alarm_inclusive(data) ==
    IF ~data.hasSupportedMetrics THEN "None"
    ELSE IF "temperature" \notin data.supportedMetrics THEN "None"
    ELSE IF data.hasCounts /\ "temperature" \in DOMAIN data.counts
         THEN LET temperature_count == data.counts["temperature"]
              IN  IF temperature_count.type # "number" THEN "TypeError"
                  ELSE IF temperature_count.n >= 0 THEN "True" ELSE "False"
    ELSE "None"

\* MerakiClient.check_temperature_alarm: "True", "False", "None", or
\* "TypeError" when the count does not compare with 0.
check_temperature_alarm(data) ==
    IF (~data.hasSupportedMetrics /\ ~data.hasCounts) \/ ~data.hasSupportedMetrics
    THEN "None"
    ELSE IF "temperature" \notin data.supportedMetrics THEN "None"
    ELSE IF data.hasCounts /\ "temperature" \in DOMAIN data.counts
         THEN LET temperature_count == data.counts["temperature"]
              IN  IF temperature_count.type # "number" THEN "TypeError"
                  ELSE IF temperature_count.n > 0 THEN "True" ELSE "False"
    ELSE "None"

\* ------------------------------------------------------------------ Init
NoRet(S) == [x \in S |-> "none"]

\* The locals of shutdown_vm and the record of its call, before the call.
VmFresh ==
    /\ vmSeen' = "none" /\ toolsObs' = "none" /\ guestReq' = FALSE
    /\ polls' = 0 /\ powerOffReq' = FALSE /\ vmRet' = "none"

\* The same for enter_maintenance_mode and shutdown_host.
HostFresh ==
    /\ maintReq' = FALSE /\ emmRet' = "none" /\ hostShutReq' = FALSE
    /\ reqFlag' = "none" /\ hsRet' = "none"

\* The same for IloClient.power_on and IloClient.disconnect.
IloFresh ==
    /\ powerStateObs' = "none" /\ resetReq' = 0 /\ resetStatus' = "none"
    /\ logoutTried' = "no"

\* The locals and the per-tick records as they are when a tick begins.
TickReset ==
    /\ temperature_data' = Unset /\ has_alarm' = "unset"
    /\ attempt' = 0 /\ requestsMade' = 0 /\ slept' = <<>>
    /\ startShutdown' = is_shutdown
    /\ invoked' = <<>> /\ result' = "none"
    /\ opened' = FALSE /\ enumFailed' = FALSE /\ unitRaised' = FALSE
    /\ vmsAllOff' = FALSE /\ hostsAllIn' = FALSE
    /\ vms' = <<>> /\ vmsListed' = FALSE /\ vmIdx' = 0
    /\ vmPower' = [v \in VMs |-> "poweredOff"]
    /\ vmCalled' = {} /\ VmFresh
    /\ hosts' = <<>> /\ hostsListed' = FALSE /\ hostIdx' = 0
    /\ inMaintenanceMode' = [h \in Hosts |-> FALSE]
    /\ hostCalled' = {} /\ HostFresh
    /\ task' = "none"
    /\ iloIdx' = 0 /\ success' = TRUE
    /\ iloConn' = NoRet(ILO_HOSTS) /\ iloPow' = NoRet(ILO_HOSTS)
    /\ iloOrder' = <<>> /\ IloFresh

\* The clients as constructed and the locals before the first pass, apart
\* from the reading and its reduction.
Constructed ==
    /\ is_shutdown = FALSE
    /\ attempt = 0 /\ requestsMade = 0 /\ slept = <<>>
    /\ startShutdown = FALSE
    /\ invoked = <<>> /\ result = "none" /\ running = {}
    /\ interruptedIn = {} /\ failedTicks = 0 /\ lastSucceeded = "none"
    /\ service_instance = "None" /\ opened = FALSE /\ enumFailed = FALSE
    /\ unitRaised = FALSE /\ vmsAllOff = FALSE /\ hostsAllIn = FALSE
    /\ vms = <<>> /\ vmsListed = FALSE /\ vmIdx = 0
    /\ vmPower = [v \in VMs |-> "poweredOff"]
    /\ vmCalled = {}
    /\ vmSeen = "none" /\ toolsObs = "none" /\ guestReq = FALSE
    /\ polls = 0 /\ powerOffReq = FALSE /\ vmRet = "none"
    /\ hosts = <<>> /\ hostsListed = FALSE /\ hostIdx = 0
    /\ inMaintenanceMode = [h \in Hosts |-> FALSE]
    /\ hostCalled = {}
    /\ maintReq = FALSE /\ emmRet = "none" /\ hostShutReq = FALSE
    /\ reqFlag = "none" /\ hsRet = "none"
    /\ task = "none"
    /\ iloIdx = 0 /\ success = TRUE /\ redfish_client = "None"
    /\ iloConn = NoRet(ILO_HOSTS) /\ iloPow = NoRet(ILO_HOSTS)
    /\ iloOrder = <<>>
    /\ powerStateObs = "none" /\ resetReq = 0 /\ resetStatus = "none"
    /\ logoutTried = "no"

Init ==
    /\ pc = "poll"
    /\ config = ValidConfig
    /\ temperature_data = Unset /\ has_alarm = "unset"
    /\ Constructed

\* ------------------------------------------------- MerakiClient: the poll
\* A variant whose delay does not grow.
sleep_time_fixed(a) == retry_delay

\* The delay slept after failed attempt a (counted from 0).
sleep_time(a) == retry_delay * (2 ^ a)

\* A variant of the retry loop that backs off after a 200 response too,
\* before it returns the data.
get_temperature_alerts_backoff_always ==
    /\ pc = "poll"
    /\ requestsMade' = requestsMade + 1
    /\ \/ /\ \E data \in Readings : temperature_data' = data
          /\ pc' = "evaluate"
          /\ slept' = IF attempt < max_retries - 1
                      THEN Append(slept, sleep_time(attempt)) ELSE slept
          /\ UNCHANGED attempt
       \/ /\ IF attempt < max_retries - 1
             THEN /\ slept' = Append(slept, sleep_time(attempt))
                  /\ attempt' = attempt + 1
                  /\ pc' = "poll"
                  /\ UNCHANGED temperature_data
             ELSE /\ temperature_data' = NoData
                  /\ pc' = "evaluate"
                  /\ UNCHANGED <<attempt, slept>>
    /\ UNCHANGED <<is_shutdown, has_alarm, tickVars, sessVars, vmVars, hostVars,
                   task, iloVars>>

\* One pass of the retry loop of get_temperature_alerts: a request, then a
\* return (200), or the backoff sleep, or the end of the loop.
get_temperature_alerts ==
    /\ pc = "poll"
    /\ requestsMade' = requestsMade + 1
    /\ \/ \* status 200 and a body that decodes: return response.json()
          /\ \E data \in Readings : temperature_data' = data
          /\ pc' = "evaluate"
          /\ UNCHANGED <<attempt, slept>>
       \/ \* another status, or a RequestException (of requests.get, or of
          \* json() on a body that does not decode): back off, or give up
          /\ IF attempt < max_retries - 1
             THEN /\ slept' = Append(slept, sleep_time(attempt))
                  /\ attempt' = attempt + 1
                  /\ pc' = "poll"
                  /\ UNCHANGED temperature_data
             ELSE /\ temperature_data' = NoData
                  /\ pc' = "evaluate"
                  /\ UNCHANGED <<attempt, slept>>
       \/ \* an error that is no RequestException leaves the function
          /\ pc' = "errsleep"
          /\ UNCHANGED <<temperature_data, attempt, slept>>
    /\ UNCHANGED <<is_shutdown, has_alarm, tickVars, sessVars, vmVars, hostVars,
                   task, iloVars>>

\* ------------------------------------------------------- main(): one tick
\* The branch main() takes on has_alarm and is_shutdown (lines 73-84):
\* which procedure it calls, if any.
DecideUnguarded(alarm, shut) ==
    IF alarm = "True" /\ ~shut THEN "shutdown_cluster"
    ELSE IF alarm # "True" /\ shut THEN "power_on_cluster"
    ELSE "none"

\* A variant that gives up once a procedure has returned False.
DecideGiveUp(alarm, shut) ==
    IF alarm = "None" \/ failedTicks > 0 THEN "none"
    ELSE IF alarm = "True" /\ ~shut THEN "shutdown_cluster"
    ELSE IF alarm # "True" /\ shut THEN "power_on_cluster"
    ELSE "none"

DecideAnyState(alarm, shut) ==
    IF alarm = "None" THEN "none"
    ELSE IF alarm = "True" THEN "shutdown_cluster"
    ELSE IF shut THEN "power_on_cluster"
    ELSE "none"

\* A variant that powers on whenever the alarm is clear.
DecideLevel(alarm, shut) ==
    IF alarm = "None" THEN "none"
    ELSE IF alarm = "True" /\ ~shut THEN "shutdown_cluster"
    ELSE IF alarm = "False" THEN "power_on_cluster"
    ELSE "none"

Decide(alarm, shut) ==
    IF alarm # "None"
    THEN IF alarm = "True" /\ ~shut THEN "shutdown_cluster"
         ELSE IF alarm # "True" /\ shut THEN "power_on_cluster"
         ELSE "none"
    ELSE "none"

\* Lines 69-83: reduce the reading and call the procedure the branch names.
\* The locals of get_temperature_alerts are gone with its return.
main_evaluate ==
    /\ pc = "evaluate"
    /\ attempt' = 0 /\ requestsMade' = 0 /\ slept' = <<>>
    /\ IF temperature_data = NoData
       THEN /\ pc' = "sleep"
            /\ UNCHANGED <<temperature_data, has_alarm, invoked, running>>
       ELSE LET alarm == check_temperature_alarm(temperature_data)
            IN  /\ temperature_data' = Reduced
                /\ IF alarm = "TypeError"
                   THEN /\ pc' = "errsleep"
                        /\ UNCHANGED <<has_alarm, invoked, running>>
                   ELSE /\ has_alarm' = alarm
                        /\ LET call == Decide(alarm, is_shutdown)
                           IN  IF call = "none"
                               THEN /\ pc' = "sleep"
                                    /\ UNCHANGED <<invoked, running>>
                               ELSE /\ pc' = IF call = "shutdown_cluster"
                                             THEN "sc_connect" ELSE "po_next"
                                    /\ invoked' = Append(invoked, call)
                                    /\ running' = running \cup {call}
    /\ UNCHANGED <<is_shutdown, startShutdown, result, interruptedIn, config,
                   failedTicks, lastSucceeded, sessVars,
                   vmVars, hostVars, task, iloVars>>

\* The value is_shutdown takes when the procedure returned r (lines 77-78
\* and 83-84): p is "shutdown_cluster" or "power_on_cluster".
StateAfterAlways(p, r, shut) == p = "shutdown_cluster"

StateAfterCopied(p, r, shut) == IF r = "True" THEN TRUE ELSE shut

StateAfter(p, r, shut) ==
    IF r = "True" THEN p = "shutdown_cluster" ELSE shut

\* How many procedures in a row have returned False, up to MaxFailedTicks,
\* once one more has returned r.  main() keeps no such count.
Failures(n, r) ==
    IF r = "True" THEN 0
    ELSE IF n < MaxFailedTicks THEN n + 1 ELSE n

\* A variant that calls a procedure again at once when it returned False.
main_after_procedure_retry ==
    /\ pc \in {"sc_ret", "po_ret"}
    /\ LET p == IF pc = "sc_ret" THEN "shutdown_cluster" ELSE "power_on_cluster"
       IN  /\ is_shutdown' = StateAfter(p, result, is_shutdown)
           /\ IF result = "True"
              THEN pc' = "sleep" /\ UNCHANGED <<invoked, running>>
              ELSE /\ pc' = IF pc = "sc_ret" THEN "sc_connect" ELSE "po_next"
                   /\ invoked' = Append(invoked, p)
                   /\ running' = running \cup {p}
    /\ UNCHANGED <<temperature_data, has_alarm, attempt, requestsMade, slept,
                   startShutdown, result, interruptedIn, config, failedTicks,
                   lastSucceeded, sessVars, vmVars,
                   hostVars, task, iloVars>>

\* Lines 77-78 and 83-84: the procedure has returned; then line 88.
main_after_procedure ==
    /\ pc \in {"sc_ret", "po_ret"}
    /\ LET p == IF pc = "sc_ret" THEN "shutdown_cluster" ELSE "power_on_cluster"
       IN  is_shutdown' = StateAfter(p, result, is_shutdown)
    /\ failedTicks' = Failures(failedTicks, result)
    /\ lastSucceeded' = IF result = "True"
                        THEN (IF pc = "sc_ret" THEN "shutdown_cluster"
                                               ELSE "power_on_cluster")
                        ELSE lastSucceeded
    /\ pc' = "sleep"
    /\ UNCHANGED <<temperature_data, has_alarm, attempt, requestsMade, slept,
                   startShutdown, invoked, result, running, interruptedIn,
                   config,
                   sessVars, vmVars, hostVars, task, iloVars>>

\* Line 88, time.sleep(MERAKI_POLLING_INTERVAL), then the next pass.
main_sleep ==
    /\ pc = "sleep"
    /\ pc' = "poll"
    /\ TickReset
    /\ UNCHANGED <<is_shutdown, running, interruptedIn, config, failedTicks,
                   lastSucceeded, service_instance, redfish_client>>

\* A variant of main() without the handler of lines 94-97: the Exception
\* ends the process.
main_error_exit ==
    /\ pc = "errsleep"
    /\ pc' = "crashed"
    /\ UNCHANGED <<loopVars, tickVars, sessVars, vmVars, hostVars, task,
                   iloVars>>

\* Lines 94-97: an Exception reached the loop; time.sleep(10), next pass.
main_error_sleep ==
    /\ pc = "errsleep"
    /\ pc' = "poll"
    /\ TickReset
    /\ UNCHANGED <<is_shutdown, running, interruptedIn, config, failedTicks,
                   lastSucceeded, service_instance, redfish_client>>

\* ------------------------------------------- shutdown_cluster: the session
\* What the steps of shutdown_cluster leave alone.
outsideShutdown == <<loopVars, startShutdown, invoked, interruptedIn, config,
                     failedTicks, lastSucceeded, iloVars>>

\* A variant of shutdown_cluster without its try statement: an Exception
\* goes on to the caller.
ShutdownExceptMissing ==
    /\ result' = result
    /\ pc' = "errsleep"

\* Lines 54-56 of cluster_operations.py: an Exception raised under the try
\* is caught; the procedure will return False once the finally has run.
ShutdownExcept ==
    /\ result' = "False"
    /\ pc' = "sc_finally"

\* A variant of shutdown_cluster that goes on when connect() returned False.
connect_unchecked ==
    /\ pc = "sc_connect"
    /\ \/ /\ service_instance' = "si"
          /\ opened' = TRUE
       \/ UNCHANGED <<service_instance, opened>>
    /\ pc' = "sc_get_vms"
    /\ UNCHANGED <<result, running, outsideShutdown, enumFailed, foundVars,
                   vmVars,
                   hostVars, task>>

\* VCenterClient.connect, and lines 29-31 of shutdown_cluster.
connect ==
    /\ pc = "sc_connect"
    /\ \/ \* SmartConnect returned a service instance
          /\ service_instance' = "si"
          /\ opened' = TRUE
          /\ pc' = "sc_get_vms"
          /\ UNCHANGED <<result, running>>
       \/ \* SmartConnect raised: connect() is False, the procedure returns False
          /\ result' = "False"
          /\ running' = running \ {"shutdown_cluster"}
          /\ pc' = "sc_ret"
          /\ UNCHANGED <<service_instance, opened>>
    /\ UNCHANGED <<outsideShutdown, enumFailed, foundVars, vmVars, hostVars,
                   task>>

\* VCenterClient.disconnect: the value of service_instance afterwards.
disconnect(si) == "None"

\* What becomes of service_instance when an Exception was caught at line 54
\* (r = "False") or line 52 was reached (r = "True"): the finally clause
\* disconnects in both cases.
FinallyOnSuccessOnly(si, r) == IF r = "True" THEN disconnect(si) ELSE si

Finally(si, r) == disconnect(si)

\* The finally clause of shutdown_cluster, then its return.
shutdown_cluster_finally ==
    /\ pc = "sc_finally"
    /\ service_instance' = Finally(service_instance, result)
    /\ running' = running \ {"shutdown_cluster"}
    /\ pc' = "sc_ret"
    /\ UNCHANGED <<outsideShutdown, result, opened, enumFailed, foundVars,
                   vmVars,
                   hostVars, task>>

\* ---------------------------------------------- shutdown_cluster: the VMs
\* VCenterClient.get_all_vms, and line 35 of shutdown_cluster.
get_all_vms ==
    /\ pc = "sc_get_vms"
    /\ \/ \* the inventory: n machines, each powered on or off
          /\ \E n \in 0..NumVMs :
             \E power \in [1..n -> {"poweredOn", "poweredOff"}] :
                LET found == IF service_instance = "None" THEN 0 ELSE n
                IN  /\ vms' = [i \in 1..found |-> i]
                    /\ vmPower' = [v \in VMs |->
                                     IF v <= found THEN power[v] ELSE "poweredOff"]
                    /\ vmsAllOff' = \A i \in 1..found : power[i] = "poweredOff"
                    /\ vmIdx' = IF found > 0 THEN 1 ELSE 0
                    /\ pc' = IF found > 0 THEN "vm_check" ELSE "sc_get_hosts"
          /\ vmsListed' = TRUE
          /\ UNCHANGED <<result, enumFailed>>
       \/ \* RetrieveContent or the container view raised
          /\ service_instance # "None"
          /\ enumFailed' = TRUE
          /\ ShutdownExcept
          /\ UNCHANGED <<vms, vmsListed, vmPower, vmIdx, vmsAllOff>>
    /\ UNCHANGED <<outsideShutdown, running, service_instance, opened,
                   unitRaised, hostsAllIn,
                   vmCalled, vmSeen, toolsObs, guestReq, polls, powerOffReq,
                   vmRet, hostVars, task>>

\* shutdown_vm returns r, and its loop counter goes with it; the for loop
\* of line 39 goes on.
VmReturn(r) ==
    /\ vmRet' = r
    /\ polls' = 0
    /\ IF vmIdx < Len(vms)
       THEN vmIdx' = vmIdx + 1 /\ pc' = "vm_check"
       ELSE vmIdx' = vmIdx /\ pc' = "sc_get_hosts"

\* shutdown_vm, line 115: a machine whose state is not poweredOn needs
\* nothing done.
AlreadyOffNever(state) == FALSE

AlreadyOff(state) == state # "poweredOn"

\* shutdown_vm, lines 115-117: the first power-state read, outside the try.
shutdown_vm_check ==
    /\ pc = "vm_check"
    /\ vmCalled' = vmCalled \cup {vms[vmIdx]}
    /\ toolsObs' = "none" /\ guestReq' = FALSE /\ powerOffReq' = FALSE
    /\ \/ \* the read raised: nothing in shutdown_vm catches it
          /\ vmSeen' = "raised"
          /\ unitRaised' = TRUE
          /\ vmRet' = "none"
          /\ ShutdownExcept
          /\ UNCHANGED <<vmIdx, polls>>
       \/ /\ AlreadyOff(vmPower[vms[vmIdx]])
          /\ vmSeen' = vmPower[vms[vmIdx]]
          /\ VmReturn("True")
          /\ UNCHANGED <<result, unitRaised>>
       \/ /\ ~AlreadyOff(vmPower[vms[vmIdx]])
          /\ vmSeen' = vmPower[vms[vmIdx]]
          /\ vmRet' = "none"
          /\ pc' = "vm_guest"
          /\ UNCHANGED <<vmIdx, polls, result, unitRaised>>
    /\ UNCHANGED <<outsideShutdown, running, service_instance, opened,
                   enumFailed, vmsAllOff, hostsAllIn, vms, vmsListed, vmPower,
                   hostVars, task>>

\* shutdown_vm, lines 123-125: the guest agent, and ShutdownGuest.
shutdown_vm_guest ==
    /\ pc = "vm_guest"
    /\ \/ \* reading toolsRunningStatus raised
          /\ VmReturn("False")
          /\ UNCHANGED <<toolsObs, guestReq>>
       \/ \* the agent runs, ShutdownGuest raised
          /\ toolsObs' = "guestToolsRunning"
          /\ guestReq' = TRUE
          /\ VmReturn("False")
       \/ \* the agent runs, ShutdownGuest accepted
          /\ toolsObs' = "guestToolsRunning"
          /\ guestReq' = TRUE
          /\ pc' = "vm_wait"
          /\ UNCHANGED <<vmIdx, vmRet, polls>>
       \/ \* the agent does not run
          /\ toolsObs' = "guestToolsNotRunning"
          /\ pc' = "vm_poweroff"
          /\ UNCHANGED <<vmIdx, vmRet, guestReq, polls>>
    /\ UNCHANGED <<outsideShutdown, running, result, sessVars, vms, vmsListed,
                   vmPower, vmCalled, vmSeen, powerOffReq, hostVars, task>>

\* A variant of the wait loop that gives up after one poll.
StillWaitingOnce(n) == n < 1

\* shutdown_vm, line 128: the wait loop has a pass left after n polls.
StillWaiting(n) == n < GracefulPolls

\* shutdown_vm, lines 128-136: one pass of the wait loop; the guest may have
\* powered off since the last read.
shutdown_vm_wait ==
    /\ pc = "vm_wait"
    /\ IF StillWaiting(polls)
       THEN \/ \* the read raised
               /\ VmReturn("False")
               /\ UNCHANGED vmPower
            \/ \* powered off: return True
               /\ vmPower' = [vmPower EXCEPT ![vms[vmIdx]] = "poweredOff"]
               /\ VmReturn("True")
            \/ \* still on: time.sleep(10)
               /\ polls' = polls + 1
               /\ UNCHANGED <<pc, vmIdx, vmRet, vmPower>>
       ELSE /\ pc' = "vm_poweroff"
            /\ UNCHANGED <<vmIdx, vmRet, vmPower, polls>>
    /\ UNCHANGED <<outsideShutdown, running, result, sessVars, vms, vmsListed,
                   vmCalled, vmSeen, toolsObs, guestReq, powerOffReq, hostVars,
                   task>>

\* shutdown_vm, line 143: the forced power-off.
shutdown_vm_power_off ==
    /\ pc = "vm_poweroff"
    /\ powerOffReq' = TRUE
    /\ \/ \* PowerOff raised
          /\ VmReturn("False")
          /\ UNCHANGED task
       \/ /\ task' = "running"
          /\ pc' = "vm_task"
          /\ UNCHANGED <<vmIdx, vmRet, polls>>
    /\ UNCHANGED <<outsideShutdown, running, result, sessVars, vms, vmsListed,
                   vmPower, vmCalled, vmSeen, toolsObs, guestReq, hostVars>>

\* shutdown_vm, lines 145-156: one poll of the power-off task.
shutdown_vm_task ==
    /\ pc = "vm_task"
    /\ \/ \* reading task.info raised
          /\ task' = "none"
          /\ VmReturn("False")
          /\ UNCHANGED vmPower
       \/ \* neither success nor error yet: time.sleep(1)
          UNCHANGED <<pc, task, vmIdx, vmRet, vmPower, polls>>
       \/ \* success
          /\ task' = "none"
          /\ vmPower' = [vmPower EXCEPT ![vms[vmIdx]] = "poweredOff"]
          /\ VmReturn("True")
       \/ \* error
          /\ task' = "none"
          /\ VmReturn("False")
          /\ UNCHANGED vmPower
    /\ UNCHANGED <<outsideShutdown, running, result, sessVars, vms, vmsListed,
                   vmCalled, vmSeen, toolsObs, guestReq, powerOffReq, hostVars>>

\* --------------------------------------------- shutdown_cluster: the hosts
\* VCenterClient.get_all_hosts, and line 43 of shutdown_cluster; with no
\* host to handle the procedure is at line 52.
get_all_hosts ==
    /\ pc = "sc_get_hosts"
    /\ \/ \* the inventory: n hosts, each in maintenance mode or not
          /\ \E n \in 0..NumHosts : \E flag \in [1..n -> BOOLEAN] :
                LET found == IF service_instance = "None" THEN 0 ELSE n
                IN  /\ hosts' = [i \in 1..found |-> i]
                    /\ inMaintenanceMode' = [h \in Hosts |->
                                               IF h <= found THEN flag[h] ELSE FALSE]
                    /\ hostsAllIn' = \A i \in 1..found : flag[i]
                    /\ hostIdx' = IF found > 0 THEN 1 ELSE 0
                    /\ pc' = IF found > 0 THEN "host_check" ELSE "sc_finally"
                    /\ result' = IF found > 0 THEN result ELSE "True"
          /\ hostsListed' = TRUE
          /\ UNCHANGED enumFailed
       \/ \* RetrieveContent or the container view raised
          /\ service_instance # "None"
          /\ enumFailed' = TRUE
          /\ ShutdownExcept
          /\ UNCHANGED <<hosts, hostsListed, inMaintenanceMode, hostIdx,
                       hostsAllIn>>
    /\ UNCHANGED <<outsideShutdown, running, service_instance, opened,
                   unitRaised, vmsAllOff, vmVars,
                   hostCalled, maintReq, emmRet, hostShutReq, reqFlag, hsRet,
                   task>>

\* The for loop of line 47 goes on to the next host, or the procedure
\* reaches "return True" (line 52).
HostNext ==
    IF hostIdx < Len(hosts)
    THEN hostIdx' = hostIdx + 1 /\ pc' = "host_check" /\ UNCHANGED result
    ELSE hostIdx' = hostIdx /\ pc' = "sc_finally" /\ result' = "True"

\* Lines 48-49 of shutdown_cluster: shutdown_host is called when
\* enter_maintenance_mode returned True.
CallsShutdownHostAnyway(r) == TRUE

CallsShutdownHost(r) == r = "True"

\* enter_maintenance_mode returns r.
EmmReturn(r) ==
    /\ emmRet' = r
    /\ IF CallsShutdownHost(r)
       THEN pc' = "hs_request" /\ UNCHANGED <<hostIdx, result>>
       ELSE HostNext

\* shutdown_host returns r.
HsReturn(r) ==
    /\ hsRet' = r
    /\ HostNext

\* enter_maintenance_mode, lines 172-174: the flag is read outside the try.
enter_maintenance_mode_check ==
    /\ pc = "host_check"
    /\ hostCalled' = hostCalled \cup {hosts[hostIdx]}
    /\ maintReq' = FALSE /\ hostShutReq' = FALSE
    /\ reqFlag' = "none" /\ hsRet' = "none"
    /\ \/ \* the read raised: nothing in enter_maintenance_mode catches it
          /\ emmRet' = "none"
          /\ unitRaised' = TRUE
          /\ ShutdownExcept
          /\ UNCHANGED hostIdx
       \/ /\ inMaintenanceMode[hosts[hostIdx]]
          /\ EmmReturn("True")
          /\ UNCHANGED unitRaised
       \/ /\ ~inMaintenanceMode[hosts[hostIdx]]
          /\ emmRet' = "none"
          /\ pc' = "host_emm"
          /\ UNCHANGED <<hostIdx, result, unitRaised>>
    /\ UNCHANGED <<outsideShutdown, running, service_instance, opened,
                   enumFailed, vmsAllOff, hostsAllIn, vmVars, hosts,
                   hostsListed, inMaintenanceMode, task>>

\* A variant of the request that returns without waiting for its task.
enter_maintenance_mode_request_async ==
    /\ pc = "host_emm"
    /\ maintReq' = TRUE
    /\ task' = "running"
    /\ EmmReturn("True")
    /\ UNCHANGED <<outsideShutdown, running, sessVars, vmVars, hosts,
                   hostsListed, inMaintenanceMode, hostCalled, hostShutReq,
                   reqFlag, hsRet>>

\* enter_maintenance_mode, line 178: the request.
enter_maintenance_mode_request ==
    /\ pc = "host_emm"
    /\ maintReq' = TRUE
    /\ \/ \* EnterMaintenanceMode raised
          /\ EmmReturn("False")
          /\ UNCHANGED task
       \/ /\ task' = "running"
          /\ pc' = "host_emm_task"
          /\ UNCHANGED <<hostIdx, emmRet, result>>
    /\ UNCHANGED <<outsideShutdown, running, sessVars, vmVars, hosts,
                   hostsListed, inMaintenanceMode, hostCalled, hostShutReq,
                   reqFlag, hsRet>>

\* enter_maintenance_mode, lines 181-194: one poll of the task.  The flag
\* the host reports afterwards is the remote system's: it follows the task
\* unless it was changed under the controller, and a poll that raised says
\* nothing about it.
enter_maintenance_mode_task ==
    /\ pc = "host_emm_task"
    /\ \/ \* reading task.info raised
          /\ task' = "none"
          /\ \E flag \in BOOLEAN :
                inMaintenanceMode' =
                    [inMaintenanceMode EXCEPT ![hosts[hostIdx]] = flag]
          /\ EmmReturn("False")
       \/ \* neither success nor error yet: time.sleep(5)
          UNCHANGED <<pc, task, hostIdx, emmRet, result, inMaintenanceMode>>
       \/ \* success
          /\ task' = "none"
          /\ \E flag \in BOOLEAN :
                inMaintenanceMode' =
                    [inMaintenanceMode EXCEPT ![hosts[hostIdx]] = flag]
          /\ EmmReturn("True")
       \/ \* error
          /\ task' = "none"
          /\ EmmReturn("False")
          /\ UNCHANGED inMaintenanceMode
    /\ UNCHANGED <<outsideShutdown, running, sessVars, vmVars, hosts,
                   hostsListed, hostCalled, maintReq, hostShutReq, reqFlag,
                   hsRet>>

\* shutdown_host, line 210: the host must report maintenance mode.
MayShutdownUnchecked(flag) == TRUE

MayShutdown(flag) == flag

\* shutdown_host, lines 210-218: the flag is read (outside the try), and
\* ShutdownHost_Task is sent to a host that reports maintenance mode.
shutdown_host_request ==
    /\ pc = "hs_request"
    /\ \/ \* the read raised: nothing in shutdown_host catches it
          /\ unitRaised' = TRUE
          /\ ShutdownExcept
          /\ UNCHANGED <<hostIdx, hsRet, hostShutReq, reqFlag, task>>
       \/ /\ ~MayShutdown(inMaintenanceMode[hosts[hostIdx]])
          /\ reqFlag' = "False"
          /\ HsReturn("False")
          /\ UNCHANGED <<hostShutReq, task, unitRaised>>
       \/ /\ MayShutdown(inMaintenanceMode[hosts[hostIdx]])
          /\ hostShutReq' = TRUE
          /\ UNCHANGED unitRaised
          /\ reqFlag' = IF inMaintenanceMode[hosts[hostIdx]]
                        THEN "True" ELSE "False"
          /\ \/ \* ShutdownHost_Task raised
                /\ HsReturn("False")
                /\ UNCHANGED task
             \/ /\ task' = "running"
                /\ pc' = "hs_task"
                /\ UNCHANGED <<hostIdx, hsRet, result>>
    /\ UNCHANGED <<outsideShutdown, running, service_instance, opened,
                   enumFailed, vmsAllOff, hostsAllIn, vmVars, hosts,
                   hostsListed, inMaintenanceMode, hostCalled, maintReq, emmRet>>

\* shutdown_host, lines 221-234: one poll of the task.
shutdown_host_task ==
    /\ pc = "hs_task"
    /\ \/ \* reading task.info raised
          /\ task' = "none"
          /\ HsReturn("False")
       \/ \* neither success nor error yet: time.sleep(5)
          UNCHANGED <<pc, task, hostIdx, hsRet, result>>
       \/ \* success
          /\ task' = "none"
          /\ HsReturn("True")
       \/ \* error
          /\ task' = "none"
          /\ HsReturn("False")
    /\ UNCHANGED <<outsideShutdown, running, sessVars, vmVars, hosts,
                   hostsListed, inMaintenanceMode, hostCalled, maintReq,
                   hostShutReq, emmRet, reqFlag>>

\* ------------------------------------------------------- power_on_cluster
\* What the steps of power_on_cluster leave alone.
outsidePowerOn == <<loopVars, startShutdown, invoked, interruptedIn, config,
                    failedTicks, lastSucceeded, sessVars,
                    vmVars, hostVars, task>>

\* A variant of the for loop that stops at the first host that failed.
MoreHostsWhileOk(i, ok) == ok /\ i < Len(config.ILO_HOSTS)

\* Line 78: the for loop has an entry left after i entries, whatever the
\* aggregate ok is so far.
MoreHosts(i, ok) == i < Len(config.ILO_HOSTS)

\* Lines 78-83 and 92-97: the for loop over ILO_HOSTS makes a new IloClient
\* for the next entry, or the procedure returns success.
power_on_cluster_loop ==
    /\ pc = "po_next"
    /\ IF MoreHosts(iloIdx, success)
       THEN /\ iloIdx' = iloIdx + 1
            /\ redfish_client' = "None"
            /\ IloFresh
            /\ pc' = "ilo_connect"
            /\ UNCHANGED <<result, running>>
       ELSE /\ result' = IF success THEN "True" ELSE "False"
            /\ running' = running \ {"power_on_cluster"}
            /\ pc' = "po_ret"
            /\ UNCHANGED <<iloIdx, redfish_client, powerStateObs, resetReq,
                           resetStatus,
                           logoutTried>>
    /\ UNCHANGED <<outsidePowerOn, success, iloConn, iloPow, iloOrder>>

\* Lines 89-90 of power_on_cluster: a host whose connect() is False clears the
\* aggregate.
AfterConnectFailedKeep(acc) == acc

AfterConnectFailed(acc) == FALSE

\* IloClient.connect, and lines 85 and 89-90 of power_on_cluster.
ilo_connect ==
    /\ pc = "ilo_connect"
    /\ iloOrder' = Append(iloOrder, iloIdx)
    /\ \/ \* the client was made and login() returned
          /\ redfish_client' = "client"
          /\ iloConn' = [iloConn EXCEPT ![iloIdx] = "True"]
          /\ pc' = "ilo_power_on"
          /\ UNCHANGED success
       \/ \* redfish_client() or login() raised: connect() is False
          /\ \E left \in {"None", "client"} : redfish_client' = left
          /\ iloConn' = [iloConn EXCEPT ![iloIdx] = "False"]
          /\ success' = AfterConnectFailed(success)
          /\ pc' = "po_next"
    /\ UNCHANGED <<outsidePowerOn, result, running, iloIdx, iloPow,
                   powerStateObs, resetReq, resetStatus, logoutTried>>

\* Lines 86-87 of power_on_cluster: a failed power_on clears the aggregate.
AggregateLast(acc, r) == r = "True"

Aggregate(acc, r) == acc /\ r = "True"

\* IloClient.power_on returns r for the host being handled.
PowerOnReturn(r) ==
    /\ iloPow' = [iloPow EXCEPT ![iloIdx] = r]
    /\ success' = Aggregate(success, r)
    /\ pc' = "ilo_disconnect"

\* A variant of power_on that takes any answer to the post for success.
AcceptedAny(status) == status # "raised"

\* IloClient.power_on, line 91: the post was answered with status 200.
Accepted(status) == status = "200"

\* IloClient.power_on.
power_on ==
    /\ pc = "ilo_power_on"
    /\ IF redfish_client = "None"
       THEN /\ PowerOnReturn("False")
            /\ UNCHANGED <<powerStateObs, resetReq, resetStatus>>
       ELSE \/ \* a get raised, or the answer lacks a field
               /\ PowerOnReturn("False")
               /\ UNCHANGED <<powerStateObs, resetReq, resetStatus>>
            \/ \* already on
               /\ powerStateObs' = "On"
               /\ PowerOnReturn("True")
               /\ UNCHANGED <<resetReq, resetStatus>>
            \/ \* not on: post the reset action
               /\ powerStateObs' = "Off"
               /\ resetReq' = resetReq + 1
               /\ \E status \in {"200", "other", "raised"} :
                     /\ resetStatus' = status
                     /\ PowerOnReturn(IF Accepted(status) THEN "True"
                                      ELSE "False")
    /\ UNCHANGED <<outsidePowerOn, result, running, iloIdx, redfish_client,
                   iloConn, iloOrder, logoutTried>>

\* A variant of disconnect that drops the client inside the try, after
\* logout.
AfterLogoutInTry(outcome) == IF outcome = "raised" THEN "client" ELSE "None"

\* IloClient.disconnect, line 59: redfish_client after logout returned or
\* raised.
AfterLogout(outcome) == "None"

\* IloClient.disconnect, line 88 of power_on_cluster: logout, which may
\* raise and is caught, then the client is dropped.
ilo_disconnect ==
    /\ pc = "ilo_disconnect"
    /\ IF redfish_client # "None"
       THEN \E outcome \in {"returned", "raised"} :
               /\ logoutTried' = outcome
               /\ redfish_client' = AfterLogout(outcome)
       ELSE UNCHANGED <<logoutTried, redfish_client>>
    /\ pc' = "po_next"
    /\ UNCHANGED <<outsidePowerOn, result, running, iloIdx, success, iloConn,
                   iloPow, iloOrder, powerStateObs, resetReq, resetStatus>>

\* -------------------------------------------------------------- interrupt
\* Positions under the try of shutdown_cluster, before its finally clause.
ShutdownTryPCs == {"sc_get_vms", "vm_check", "vm_guest", "vm_wait",
                   "vm_poweroff", "vm_task", "sc_get_hosts", "host_check",
                   "host_emm", "host_emm_task", "hs_request", "hs_task"}
ShutdownPCs == ShutdownTryPCs \cup {"sc_connect", "sc_finally"}
PowerOnPCs == {"po_next", "ilo_connect", "ilo_power_on", "ilo_disconnect"}

\* A KeyboardInterrupt is raised at the current position.  No "except
\* Exception" catches it; under the try of shutdown_cluster the finally
\* clause disconnects; under the try of main() lines 90-92 leave the loop.
\* The sleep of line 97 is inside an except clause, outside that try.
KeyboardInterrupt ==
    /\ pc \notin {"start", "exit1", "stopped", "crashed"}
    /\ pc' = IF pc = "errsleep" THEN "crashed" ELSE "stopped"
    /\ service_instance' = IF pc \in ShutdownTryPCs
                           THEN disconnect(service_instance)
                           ELSE service_instance
    /\ interruptedIn' = running
    /\ running' = {}
    /\ UNCHANGED <<loopVars, startShutdown, invoked, result, config,
                   failedTicks, lastSucceeded, opened, enumFailed,
                   foundVars,
                   vmVars, hostVars, task, iloVars>>

\* ---------------------------------------------------------- specification
Next ==
    \/ get_temperature_alerts
    \/ main_evaluate
    \/ main_after_procedure
    \/ main_sleep
    \/ main_error_sleep
    \/ connect
    \/ get_all_vms
    \/ shutdown_vm_check
    \/ shutdown_vm_guest
    \/ shutdown_vm_wait
    \/ shutdown_vm_power_off
    \/ shutdown_vm_task
    \/ get_all_hosts
    \/ enter_maintenance_mode_check
    \/ enter_maintenance_mode_request
    \/ enter_maintenance_mode_task
    \/ shutdown_host_request
    \/ shutdown_host_task
    \/ shutdown_cluster_finally
    \/ power_on_cluster_loop
    \/ ilo_connect
    \/ power_on
    \/ ilo_disconnect
    \/ KeyboardInterrupt

Spec == Init /\ [][Next]_vars

\* The program with its progress: main() runs in one thread that takes its
\* next step whenever it has one (every call returns or raises, every sleep
\* ends), and a task that is polled does not stay unresolved for ever.
SpecFair == Init /\ [][Next]_vars /\ WF_vars(Next)

\* ------------------------------------------- the reduction, on its own
\* check_temperature_alarm called on any response body the feed can send:
\* has_alarm holds what it returned ("TypeError" when it raised).
ReduceInit ==
    /\ pc = "reduce"
    /\ config = ValidConfig
    /\ temperature_data \in Readings
    /\ has_alarm = "unset"
    /\ Constructed

check_temperature_alarm_call ==
    /\ pc = "reduce"
    /\ has_alarm' = check_temperature_alarm(temperature_data)
    /\ pc' = "reduced"
    /\ UNCHANGED <<is_shutdown, temperature_data, attempt, requestsMade, slept,
                   tickVars, sessVars, vmVars, hostVars, task, iloVars>>

ReduceNext == check_temperature_alarm_call

SpecReduce == ReduceInit /\ [][ReduceNext]_vars

\* ------------------------------------ the clients, without a session
\* A caller holds VM and host objects and calls one operation of a
\* VCenterClient whose service_instance is None, or power_on of an
\* IloClient whose redfish_client is None.
ClientOperations == {"sc_get_vms", "vm_check", "sc_get_hosts", "host_check",
                     "hs_request", "ilo_power_on"}

NoSessionInit ==
    /\ pc = "caller"
    /\ config = ValidConfig
    /\ temperature_data = Unset /\ has_alarm = "unset"
    /\ Constructed

call_without_session ==
    /\ pc = "caller"
    /\ service_instance = "None" /\ redfish_client = "None"
    /\ \E op \in ClientOperations : pc' = op
    /\ \E n \in 1..NumVMs : \E power \in [1..n -> {"poweredOn", "poweredOff"}] :
          /\ vms' = [i \in 1..n |-> i]
          /\ vmPower' = [v \in VMs |-> IF v <= n THEN power[v] ELSE "poweredOff"]
    /\ \E n \in 1..NumHosts : \E flag \in [1..n -> BOOLEAN] :
          /\ hosts' = [i \in 1..n |-> i]
          /\ inMaintenanceMode' = [h \in Hosts |-> IF h <= n THEN flag[h] ELSE FALSE]
    /\ vmIdx' = 1 /\ hostIdx' = 1 /\ iloIdx' = 1
    /\ UNCHANGED <<loopVars, tickVars, sessVars, vmsListed, vmCalled, vmSeen,
                   toolsObs, guestReq, polls, powerOffReq, vmRet, hostsListed,
                   hostCalled, maintReq, emmRet, hostShutReq, reqFlag, hsRet,
                   task, success, redfish_client, iloConn, iloPow, iloOrder,
                   powerStateObs, resetReq, resetStatus, logoutTried>>

NoSessionNext ==
    \/ call_without_session
    \/ get_all_vms
    \/ shutdown_vm_check
    \/ shutdown_vm_guest
    \/ shutdown_vm_wait
    \/ shutdown_vm_power_off
    \/ shutdown_vm_task
    \/ get_all_hosts
    \/ enter_maintenance_mode_check
    \/ enter_maintenance_mode_request
    \/ enter_maintenance_mode_task
    \/ shutdown_host_request
    \/ shutdown_host_task
    \/ shutdown_cluster_finally
    \/ power_on
    \/ ilo_disconnect

SpecNoSession == NoSessionInit /\ [][NoSessionNext]_vars

\* ------------------------------------------------------------- start-up
\* main() from its first line, with any configuration the environment can
\* give.
StartupInit ==
    /\ pc = "start"
    /\ config \in Configs
    /\ temperature_data = Unset /\ has_alarm = "unset"
    /\ Constructed

\* main.py lines 42-45: validate_config, and sys.exit(1) when it is False;
\* otherwise the clients are made and the loop is entered.
main_start ==
    /\ pc = "start"
    /\ pc' = IF validate_config(config) THEN "poll" ELSE "exit1"
    /\ UNCHANGED <<loopVars, tickVars, sessVars, vmVars, hostVars, task,
                   iloVars>>

StartupNext ==
    \/ main_start
    \/ Next

SpecStartup == StartupInit /\ [][StartupNext]_vars

\* ------------------------------------------------------------ properties
Range(seq) == {seq[i] : i \in 1..Len(seq)}

\* C1: a tick that begins in RUNNING and reduces the feed to ACTIVE invokes
\* shutdown_cluster exactly once and, when it returned True, ends with the
\* state SHUTDOWN; a tick that begins in SHUTDOWN and sees ACTIVE invokes
\* neither procedure and keeps the state SHUTDOWN.
C1_ShutdownOnceThenIdle ==
    /\ (~startShutdown /\ has_alarm = "True")
          => invoked = <<"shutdown_cluster">>
    /\ (pc = "sleep" /\ ~startShutdown /\ has_alarm = "True" /\ result = "True")
          => is_shutdown
    /\ (startShutdown /\ has_alarm = "True")
          => (invoked = <<>> /\ running = {} /\ result = "none" /\ is_shutdown)

\* A tick that began in SHUTDOWN (after a shutdown that returned True) and
\* saw ACTIVE has ended.
C1_Witness ==
    pc = "sleep" /\ startShutdown /\ has_alarm = "True"

\* C2: a tick that begins in SHUTDOWN and reduces the feed to INACTIVE
\* invokes power_on_cluster, which attempts the configured hosts, and ends
\* in RUNNING when it returned True; a tick that begins in RUNNING and sees
\* INACTIVE invokes neither procedure and stays RUNNING.
C2_PowerOnWhenCleared ==
    /\ (startShutdown /\ has_alarm = "False")
          => invoked = <<"power_on_cluster">>
    /\ (pc = "sleep" /\ startShutdown /\ has_alarm = "False")
          => /\ Range(iloOrder) = ILO_HOSTS
             /\ result = "True" => ~is_shutdown
    /\ (~startShutdown /\ has_alarm = "False")
          => (invoked = <<>> /\ running = {} /\ result = "none" /\ ~is_shutdown)

\* A tick that began in SHUTDOWN, saw INACTIVE and powered the hosts on.
C2_Witness ==
    /\ pc = "sleep" /\ startShutdown /\ has_alarm = "False"
    /\ result = "True" /\ ~is_shutdown

\* C3: within a tick the state differs from the one the tick began with only
\* after the matching procedure was invoked in that tick and returned True;
\* a procedure that returned False leaves the state as the tick found it.
C3_StateFollowsSuccess ==
    /\ is_shutdown # startShutdown
          => /\ result = "True"
             /\ invoked = IF is_shutdown THEN <<"shutdown_cluster">>
                          ELSE <<"power_on_cluster">>
    /\ result = "False" => is_shutdown = startShutdown

\* A power-on that returned False has left the state SHUTDOWN.
C3_Witness ==
    /\ pc = "sleep" /\ invoked = <<"power_on_cluster">>
    /\ result = "False" /\ is_shutdown

\* C4: in a tick whose poll returned None or whose reduction returned None,
\* no procedure is invoked or running and the state is the one the tick
\* began with, RUNNING or SHUTDOWN.
C4_NoActionOnUnknown ==
    (temperature_data = NoData \/ has_alarm = "None")
       => /\ invoked = <<>> /\ running = {} /\ result = "none"
          /\ is_shutdown = startShutdown

\* The reduction returned None in a tick that began in SHUTDOWN.
C4_Witness ==
    pc = "sleep" /\ startShutdown /\ has_alarm = "None"

\* C5: at most one procedure is running, at most one is invoked per tick,
\* the one running is the one control is in, and none is running while the
\* feed is polled or reduced.
C5_OneProcedureAtATime ==
    /\ Cardinality(running) <= 1
    /\ Len(invoked) <= 1
    /\ pc \in ShutdownPCs => running = {"shutdown_cluster"}
    /\ pc \in PowerOnPCs => running = {"power_on_cluster"}
    /\ pc \in {"poll", "evaluate", "sleep", "errsleep"} => running = {}

\* The poll of the tick after a shutdown that returned True.
C5_Witness ==
    pc = "poll" /\ requestsMade = 1 /\ startShutdown /\ running = {}

\* C6: a host has been sent ShutdownHost_Task only if enter_maintenance_mode
\* returned True for it and the flag read before the request was set.
C6_ShutdownOnlyInMaintenance ==
    hostShutReq => (emmRet = "True" /\ reqFlag = "True")

\* The second host of the inventory has been sent ShutdownHost_Task.
C6_Witness ==
    pc = "hs_task" /\ hostShutReq /\ hostIdx = 2

\* C7: power_on_cluster returns True exactly when connect and power_on
\* returned True for every configured host.
C7_PowerOnIsConjunction ==
    pc = "po_ret"
       => (result = "True"
             <=> \A h \in ILO_HOSTS : iloConn[h] = "True" /\ iloPow[h] = "True")

\* Host 2 failed to connect, every other host was powered on, and the
\* procedure returned False.
C7_Witness ==
    /\ pc = "po_ret" /\ result = "False"
    /\ iloConn[2] = "False"
    /\ \A h \in ILO_HOSTS \ {2} : iloConn[h] = "True" /\ iloPow[h] = "True"

\* C8: a run of shutdown_cluster that opened the session and enumerated
\* without error returns True, whatever happened to the single VMs and
\* hosts.
C8_LenientCompletion ==
    (pc = "sc_ret" /\ opened /\ ~enumFailed) => result = "True"

\* C9: when a run of shutdown_cluster that opened the session returns and
\* no enumeration raised, shutdown_vm was called on every enumerated VM and
\* enter_maintenance_mode on every enumerated host.
C9_EveryUnitProcessed ==
    (pc = "sc_ret" /\ opened /\ ~enumFailed)
       => /\ vmsListed /\ vmCalled = Range(vms)
          /\ hostsListed /\ hostCalled = Range(hosts)

\* C10: outside shutdown_cluster, while the loop runs, service_instance is
\* None: when the procedure has returned, during both sleeps, during the
\* poll and during power_on_cluster.
C10_SessionClosedOnReturn ==
    pc \notin (ShutdownPCs \cup {"stopped", "crashed"})
       => service_instance = "None"

\* shutdown_cluster has returned False after a power-state read raised
\* under an open session.
C10_Witness ==
    /\ pc = "sc_ret" /\ opened /\ result = "False" /\ vmSeen = "raised"
    /\ service_instance = "None"

\* C11: when connect() returned False, shutdown_cluster has returned False
\* (a value, not an exception) without enumerating VMs or hosts and without
\* any guest-shutdown, power-off, maintenance-mode or host-shutdown request,
\* and the state is still RUNNING.
C11_ConnectFailureAborts ==
    (invoked = <<"shutdown_cluster">> /\ ~opened
        /\ pc \notin {"sc_connect", "stopped", "crashed"})
       => /\ pc \in {"sc_ret", "sleep"}
          /\ result = "False"
          /\ ~vmsListed /\ ~hostsListed
          /\ vmCalled = {} /\ hostCalled = {}
          /\ ~guestReq /\ ~powerOffReq /\ ~maintReq /\ ~hostShutReq
          /\ service_instance = "None"
          /\ ~is_shutdown

\* The tick of a shutdown whose session could not be opened has ended.
C11_Witness ==
    /\ pc = "sleep" /\ invoked = <<"shutdown_cluster">>
    /\ ~opened /\ result = "False" /\ ~is_shutdown

\* C12: when get_temperature_alerts returns None it has made exactly 3
\* requests and slept 1 and then 2 between them, with no sleep after the
\* third; it returned to main() rather than raising.  While it is still
\* trying, every failed attempt so far was followed by its delay.
C12_ThreeAttemptsThenNone ==
    /\ (pc = "evaluate" /\ temperature_data = NoData)
          => (requestsMade = 3 /\ slept = <<1, 2>>)
    /\ pc = "poll"
          => /\ requestsMade = attempt /\ Len(slept) = attempt
             /\ attempt <= 2
             /\ \A i \in 1..Len(slept) : slept[i] = 2 ^ (i - 1)

\* All three attempts failed and None is back in main().
C12_Witness ==
    pc = "evaluate" /\ temperature_data = NoData /\ requestsMade = 3

\* C13: for every response body whose supportedMetrics is missing or does
\* not list "temperature", check_temperature_alarm returns None, whatever
\* counts holds.
C13_UnsupportedIsUnknown ==
    (pc = "reduced" /\ "temperature" \notin temperature_data.supportedMetrics)
       => has_alarm = "None"

\* A body that lists only another metric and carries a positive temperature
\* count has been reduced.
C13_Witness ==
    /\ pc = "reduced"
    /\ temperature_data.hasSupportedMetrics
    /\ temperature_data.supportedMetrics = {"humidity"}
    /\ temperature_data.hasCounts
    /\ "temperature" \in DOMAIN temperature_data.counts
    /\ temperature_data.counts["temperature"].type = "number"
    /\ temperature_data.counts["temperature"].n > 0

\* C14: for every response body that lists "temperature" as supported, a
\* temperature count above 0 gives True, a count of 0 gives False, and a
\* body without counts or without a temperature entry in counts gives None.
C14_CountDecides ==
    (pc = "reduced" /\ "temperature" \in temperature_data.supportedMetrics)
       => LET present == /\ temperature_data.hasCounts
                         /\ "temperature" \in DOMAIN temperature_data.counts
              count == temperature_data.counts["temperature"]
          IN  /\ (present /\ count.type = "number" /\ count.n > 0)
                    => has_alarm = "True"
              /\ (present /\ count.type = "number" /\ count.n = 0)
                    => has_alarm = "False"
              /\ ~present => has_alarm = "None"

\* A body that lists temperature and counts 0 alerts has been reduced.
C14_Witness ==
    /\ pc = "reduced"
    /\ "temperature" \in temperature_data.supportedMetrics
    /\ temperature_data.hasCounts
    /\ "temperature" \in DOMAIN temperature_data.counts
    /\ temperature_data.counts["temperature"] = [type |-> "number", n |-> 0]
    /\ has_alarm = "False"

C16_RetryEveryTick ==
    /\ (pc = "sleep" /\ result = "False") => is_shutdown = startShutdown
    /\ (failedTicks > 0 /\ ~startShutdown /\ has_alarm = "True")
          => invoked = <<"shutdown_cluster">>
    /\ (failedTicks > 0 /\ startShutdown /\ has_alarm = "False")
          => invoked = <<"power_on_cluster">>

\* shutdown_cluster is being run again after it returned False in two
\* ticks before.
C16_Witness ==
    /\ pc = "sc_connect" /\ failedTicks >= 2
    /\ ~startShutdown /\ has_alarm = "True"
    /\ invoked = <<"shutdown_cluster">>

\* C17: when an Exception has reached the handler of the loop, the state is
\* the one the tick began with, no procedure is running, and the next pass
\* can begin; the loop is left only by a KeyboardInterrupt, never by an
\* Exception, and after the delay the next tick polls with the state kept.
C17_ErrorsCaughtByLoop ==
    /\ [](pc = "errsleep"
            => /\ is_shutdown = startShutdown
               /\ running = {}
               /\ ENABLED (Next /\ pc' = "poll" /\ is_shutdown' = is_shutdown))
    /\ [][pc' \in {"stopped", "crashed"} => KeyboardInterrupt]_vars
    /\ [][(pc = "errsleep" /\ pc' \notin {"stopped", "crashed"})
             => (pc' = "poll" /\ is_shutdown' = is_shutdown)]_vars

\* The reduction raised in a tick that began in SHUTDOWN.
C17_Witness ==
    /\ pc = "errsleep" /\ startShutdown /\ is_shutdown
    /\ temperature_data = Reduced

\* C18: when the loop has been left by an interrupt, no procedure was cut
\* short by it: an interrupt that arrives while shutdown_cluster or
\* power_on_cluster is running waits until the procedure has returned.
C18_InterruptOnlyBetweenTicks ==
    pc \in {"stopped", "crashed"} => interruptedIn = {}

\* C19: an interrupt always ends the loop through the handler of lines
\* 90-92, so that main() returns and the process exits with code zero,
\* wherever the interrupt arrives, the delay after an error included.
C19_InterruptExitsCleanly ==
    pc # "crashed"

\* C20: an operation called on a client that has no session reads nothing
\* from the remote system, sends it no request, and does not return True.
C20_NoSessionFailsFast ==
    (service_instance = "None" /\ redfish_client = "None")
       => /\ vmSeen = "none" /\ toolsObs = "none" /\ reqFlag = "none"
          /\ powerStateObs = "none"
          /\ ~guestReq /\ ~powerOffReq /\ ~maintReq /\ ~hostShutReq
          /\ resetReq = 0
          /\ vmRet # "True" /\ emmRet # "True" /\ hsRet # "True"
          /\ \A h \in ILO_HOSTS : iloPow[h] # "True"

\* C21: when a required variable is unset, or ILO_HOSTS is empty, or an
\* entry of ILO_HOSTS lacks host, username or password, main() goes from
\* its start to sys.exit(1) and nowhere else: nothing is polled and no
\* procedure is invoked.
C21_ValidationFailsClosed ==
    LET complete ==
            /\ \A f \in Fields : config.env[f] # ""
            /\ Len(config.ILO_HOSTS) > 0
            /\ \A i \in 1..Len(config.ILO_HOSTS) :
                  EntryKeys \subseteq config.ILO_HOSTS[i]
    IN  /\ ~complete
           => /\ pc \in {"start", "exit1"}
              /\ temperature_data = Unset /\ requestsMade = 0
              /\ invoked = <<>> /\ running = {}
              /\ service_instance = "None" /\ redfish_client = "None"
        /\ (complete /\ pc # "start") => pc # "exit1"

\* The process has exited on a configuration whose only fault is an entry
\* of ILO_HOSTS without a password.
C21_Witness ==
    /\ pc = "exit1"
    /\ \A f \in Fields : config.env[f] = "set"
    /\ Len(config.ILO_HOSTS) = 2
    /\ config.ILO_HOSTS[1] = EntryKeys
    /\ config.ILO_HOSTS[2] = {"host", "username"}

\* C22: the hosts power_on_cluster has attempted are the first entries of
\* the configured list, each once and in order, and when it returns they
\* are all of them, whatever connect and power_on returned for each and
\* whatever hosts the hypervisor listed.
C22_EveryHostAttemptedOnce ==
    /\ iloOrder = [i \in 1..Len(iloOrder) |-> i]
    /\ Len(iloOrder) <= Len(config.ILO_HOSTS)
    /\ pc \in PowerOnPCs => Len(iloOrder) \in {iloIdx - 1, iloIdx}
    /\ pc = "po_ret" => Len(iloOrder) = Len(config.ILO_HOSTS)

\* power_on_cluster has returned after the first host failed to connect and
\* the second failed to power on.
C22_Witness ==
    /\ pc = "po_ret"
    /\ iloConn[1] = "False"
    /\ iloConn[2] = "True" /\ iloPow[2] = "False"
    /\ iloOrder = <<1, 2, 3>>

\* C23: when power_on_cluster goes on to the next host, or returns, after a
\* host whose connect() returned True, logout has been attempted on that
\* host's client and its redfish_client is None, whatever power_on returned
\* and whether logout returned or raised.
C23_IloSessionClosed ==
    (pc \in {"po_next", "po_ret"} /\ iloIdx >= 1 /\ iloConn[iloIdx] = "True")
       => (logoutTried # "no" /\ redfish_client = "None")

\* The loop goes on after a host whose power_on returned False and whose
\* logout raised.
C23_Witness ==
    /\ pc = "po_next" /\ iloIdx = 1
    /\ iloConn[1] = "True" /\ iloPow[1] = "False"
    /\ logoutTried = "raised" /\ redfish_client = "None"

\* C24: when power_on has returned on a connected client: if it read the
\* power state On it posted no reset and returned True; if it read another
\* state it posted exactly one reset and returned True exactly when the
\* answer had status 200; if the query failed it posted nothing and
\* returned False.
C24_PowerOnProtocol ==
    (pc = "ilo_disconnect" /\ iloConn[iloIdx] = "True")
       => /\ powerStateObs = "On"
                => (resetReq = 0 /\ iloPow[iloIdx] = "True")
          /\ powerStateObs = "Off"
                => /\ resetReq = 1
                   /\ iloPow[iloIdx] = "True" <=> resetStatus = "200"
          /\ powerStateObs = "none"
                => (resetReq = 0 /\ iloPow[iloIdx] = "False")

\* power_on has returned False for a host that was off and answered the
\* reset with a status other than 200.
C24_Witness ==
    /\ pc = "ilo_disconnect" /\ iloConn[iloIdx] = "True"
    /\ powerStateObs = "Off" /\ resetReq = 1 /\ resetStatus = "other"
    /\ iloPow[iloIdx] = "False"

\* C25: inside shutdown_vm, a VM first read as not powered on gets no
\* request at all; ShutdownGuest is sent only after the guest agent was read
\* as running, and at most 30 polls follow it; PowerOff is sent only to a VM
\* first read as powered on, and only when the agent was read as not
\* running or all 30 polls after ShutdownGuest found it still on.
C25_VmShutdownProtocol ==
    /\ vmSeen # "poweredOn"
          => (~guestReq /\ ~powerOffReq /\ toolsObs = "none")
    /\ pc \in {"vm_guest", "vm_wait", "vm_poweroff", "vm_task"}
          => vmSeen = "poweredOn"
    /\ guestReq => toolsObs = "guestToolsRunning"
    /\ polls <= 30
    /\ polls > 0 => guestReq
    /\ powerOffReq
          => /\ vmSeen = "poweredOn"
             /\ toolsObs = "guestToolsNotRunning" \/ guestReq
    /\ pc \in {"vm_poweroff", "vm_task"}
          => \/ toolsObs = "guestToolsNotRunning" /\ ~guestReq
             \/ guestReq /\ polls = 30

\* The power-off task of a VM is polled after ShutdownGuest and 30 polls
\* that found the VM still on.
C25_Witness ==
    /\ pc = "vm_task" /\ vmSeen = "poweredOn"
    /\ guestReq /\ polls = 30 /\ powerOffReq

\* C26: one run of shutdown_cluster is strictly sequential.  Nothing is
\* enumerated or requested before the session was opened; the hosts are
\* enumerated, and maintenance mode is requested, only after shutdown_vm
\* has returned for every VM of the list; ShutdownHost_Task is requested
\* for a host only after enter_maintenance_mode has returned for it, with
\* no task of it still polled; and the loops step from one VM or host to
\* the next only when the call for the current one has returned.
C26_StrictlySequential ==
    [][LET VmPCs == {"vm_check", "vm_guest", "vm_wait", "vm_poweroff", "vm_task"}
          HostPCs == {"host_check", "host_emm", "host_emm_task", "hs_request",
                      "hs_task"}
          Returned == {"True", "False"}
          Order ==
              /\ (pc \in ShutdownTryPCs \/ vmsListed \/ hostsListed) => opened
              /\ (vmCalled # {} \/ pc \in VmPCs) => vmsListed
              /\ vmCalled = {vms[i] : i \in 1..vmIdx}
                    \/ (pc \notin VmPCs \ {"vm_check"}
                          /\ vmCalled = {vms[i] : i \in 1..(vmIdx - 1)})
              /\ (hostsListed \/ pc \in HostPCs \/ pc = "sc_get_hosts")
                    => /\ vmsListed /\ vmCalled = Range(vms)
                       /\ vms # <<>> => vmRet \in Returned
                       /\ pc \notin VmPCs
              /\ (hostCalled # {} \/ maintReq \/ hostShutReq \/ pc \in HostPCs)
                    => hostsListed
              /\ hostCalled = {hosts[i] : i \in 1..hostIdx}
                    \/ (pc \notin HostPCs \ {"host_check"}
                          /\ hostCalled = {hosts[i] : i \in 1..(hostIdx - 1)})
              /\ pc \in {"sc_get_hosts", "host_check", "host_emm", "hs_request"}
                    => task = "none"
              /\ (hostShutReq \/ pc \in {"hs_request", "hs_task"})
                    => emmRet \in Returned
              /\ (pc = "host_check" /\ hostIdx > 1)
                    => (emmRet = "False" \/ hsRet \in Returned)
          Steps ==
              /\ (vmIdx >= 1 /\ vmIdx' # vmIdx /\ vmIdx' # 0)
                    => /\ vmIdx' = vmIdx + 1
                       /\ vmRet' \in Returned /\ task' = "none"
              /\ (hostIdx >= 1 /\ hostIdx' # hostIdx /\ hostIdx' # 0)
                    => /\ hostIdx' = hostIdx + 1
                       /\ emmRet' = "False" \/ hsRet' \in Returned
                       /\ task' = "none"
              /\ (hostsListed' /\ ~hostsListed)
                    => /\ pc = "sc_get_hosts" /\ opened
                       /\ vmCalled = Range(vms)
      IN  Order /\ Order' /\ Steps]_vars

\* The shutdown task of the second host is polled: both VMs and the first
\* host were handled, and maintenance mode was requested for this host and
\* its task resolved.
C26_Witness ==
    /\ pc = "hs_task" /\ task = "running"
    /\ Len(vms) = 2 /\ vmCalled = {1, 2}
    /\ hostIdx = 2 /\ hostCalled = {1, 2}
    /\ maintReq /\ emmRet = "True" /\ hostShutReq

\* C27: get_temperature_alerts returns the data of the first attempt that
\* is answered 200 with a body that decodes, in the step of that request:
\* when the data is back in main() after k requests (k in 1..3), the delays
\* slept are the first k-1 of 1, 2, and no request or delay is added
\* once the function has returned.
C27_StopsAtFirstSuccess ==
    [][LET Returned ==
              (pc = "evaluate" /\ temperature_data # NoData)
                 => /\ requestsMade \in 1..3
                    /\ requestsMade = attempt + 1
                    /\ slept = SubSeq(<<1, 2>>, 1, requestsMade - 1)
          Steps ==
              /\ (pc = "poll" /\ temperature_data' \notin {Unset, NoData})
                    => /\ pc' = "evaluate"
                       /\ requestsMade' = requestsMade + 1
                       /\ slept' = slept /\ attempt' = attempt
              /\ pc # "poll"
                    => /\ requestsMade' \in {requestsMade, 0}
                       /\ slept' \in {slept, <<>>}
      IN  Returned /\ Returned' /\ Steps]_vars

\* The third request was answered 200, after delays of 1 and 2.
C27_Witness ==
    /\ pc = "evaluate" /\ temperature_data.kind = "dict"
    /\ requestsMade = 3 /\ slept = <<1, 2>>

\* C28: is_shutdown starts False, and the procedures that return True
\* alternate, shutdown_cluster first: power_on_cluster is called only when
\* the procedure that last returned True is shutdown_cluster, and
\* shutdown_cluster is never called while is_shutdown is True, which is
\* exactly while the procedure that last returned True is shutdown_cluster.
C28_SuccessesAlternate ==
    /\ ~is_shutdown /\ lastSucceeded = "none"
    /\ [][LET Tracks == is_shutdown <=> lastSucceeded = "shutdown_cluster"
              Steps ==
                  /\ (pc = "evaluate" /\ pc' = "po_next")
                        => lastSucceeded = "shutdown_cluster"
                  /\ (pc = "evaluate" /\ pc' = "sc_connect")
                        => (~is_shutdown /\ lastSucceeded # "shutdown_cluster")
                  /\ (pc = "sc_ret" /\ result = "True")
                        => /\ lastSucceeded # "shutdown_cluster"
                           /\ pc' = "sleep" => lastSucceeded' = "shutdown_cluster"
                  /\ (pc = "po_ret" /\ result = "True")
                        => /\ lastSucceeded = "shutdown_cluster"
                           /\ pc' = "sleep" => lastSucceeded' = "power_on_cluster"
                  /\ lastSucceeded' # lastSucceeded
                        => (pc \in {"sc_ret", "po_ret"} /\ result = "True")
          IN  Tracks /\ Tracks' /\ Steps]_vars

\* shutdown_cluster returns True for the second time, after a power-on that
\* returned True.
C28_Witness ==
    /\ pc = "sc_ret" /\ result = "True"
    /\ lastSucceeded = "power_on_cluster" /\ ~is_shutdown

\* C29: no Exception leaves shutdown_cluster or power_on_cluster.  The
\* except handler of main() is entered only from the poll or the reduction;
\* a procedure is left only by its return, with True or False, or by an
\* interrupt; and a run in which the session was not opened, an enumeration
\* raised or a read raised returns False.
C29_ProceduresReturnBoolean ==
    [][LET Returns ==
              /\ pc \in {"sc_ret", "po_ret"} => result \in {"True", "False"}
              /\ (pc = "sc_ret" /\ (~opened \/ enumFailed \/ unitRaised))
                    => result = "False"
          Steps ==
              /\ pc' = "errsleep" => pc \in {"poll", "evaluate"}
              /\ (pc \in ShutdownPCs \cup PowerOnPCs
                    /\ pc' \notin ShutdownPCs \cup PowerOnPCs)
                   => \/ pc' \in {"sc_ret", "po_ret"}
                      \/ pc' = "stopped" /\ interruptedIn' # {}
      IN  Returns /\ Returns' /\ Steps]_vars

\* get_all_hosts raised after the VMs were handled, and shutdown_cluster
\* has returned False.
C29_Witness ==
    /\ pc = "sc_ret" /\ result = "False"
    /\ enumFailed /\ vmsListed /\ ~hostsListed

\* C30: in a run whose ticks go on for ever, if from some tick on every
\* tick reads the alarm as True and every shutdown_cluster opens its
\* session and has its enumerations answered, then is_shutdown is
\* eventually True for good; and if from some tick on every tick reads the
\* alarm as False and every host accepts its session and its power-on,
\* then is_shutdown is eventually False for good.
\* That polled tasks resolve is the progress condition of SpecFair.
C30_Liveness ==
    /\ ( /\ []<>(pc = "poll")
         /\ <>[](pc \in {"sleep", "errsleep"} => has_alarm = "True")
         /\ <>[](pc \in {"sc_finally", "sc_ret"} => (opened /\ ~enumFailed)) )
          => <>[]is_shutdown
    /\ ( /\ []<>(pc = "poll")
         /\ <>[](pc \in {"sleep", "errsleep"} => has_alarm = "False")
         /\ <>[](\A h \in ILO_HOSTS :
                    iloConn[h] # "False" /\ iloPow[h] # "False") )
          => <>[](~is_shutdown)

\* C31: when an interrupt has ended the loop while shutdown_cluster was
\* running with a session it had opened, the session is closed
\* (service_instance is None) by the time main() handles the interrupt, and
\* is_shutdown is what it was when the tick began, not True.
C31_InterruptClosesSession ==
    (pc \in {"stopped", "crashed"} /\ "shutdown_cluster" \in interruptedIn
       /\ opened)
       => /\ service_instance = "None"
          /\ ~is_shutdown /\ is_shutdown = startShutdown

====
